---- MODULE Spec2Model ----
(***************************************************************************)
(* Hangman (src/hangman_game.py): the word source with its time-windowed   *)
(* cache, the session-scoped word selection, the round state and the two   *)
(* guess callbacks.                                                        *)
(*                                                                         *)
(* A Python string is a sequence of one-character strings, so "" is <<>>   *)
(* and "bee" is <<"b","e","e">>.  st.session_state.state = None is the     *)
(* record None below (status "none").  The variable last is the log of     *)
(* the most recent script run: which branch the callback left by, or how   *)
(* new_game got its candidates.                                            *)
(***************************************************************************)
EXTENDS Integers, Sequences, FiniteSets, TLC

VARIABLES state, letter, solve, used_words, ui_warning, cache, last, shown

vars == <<state, letter, solve, used_words, ui_warning, cache, last, shown>>

(* ---------------------------------------------------------------- bounds *)

\* longest word the masking specification draws
MaxWordLen == 3

(* ------------------------------------------------------ program constants *)

max_tries == 6

ttl == 600

\* min_zipf = 3.5, in tenths
min_zipf == 35

\* range(30) in new_game
retries == 30

\* the fallback of fetch_random_word
streamlit == <<"s", "t", "r", "e", "a", "m", "l", "i", "t">>

(* -------------------------------------------------------------- characters *)

LowerSeq == <<"a", "b", "c", "d", "e", "f", "g", "h", "i", "j", "k", "l", "m",
              "n", "o", "p", "q", "r", "s", "t", "u", "v", "w", "x", "y", "z">>

UpperSeq == <<"A", "B", "C", "D", "E", "F", "G", "H", "I", "J", "K", "L", "M",
              "N", "O", "P", "Q", "R", "S", "T", "U", "V", "W", "X", "Y", "Z">>

Range(s) == {s[i] : i \in 1..Len(s)}

\* the class [a-z]
AZ == Range(LowerSeq)

\* the class [A-Za-z]
Alpha == AZ \cup Range(UpperSeq)

Whitespace == {" ", "\t", "\n"}

\* str.lower() on one character
lower_char(c) ==
    IF c \in Range(UpperSeq)
    THEN LowerSeq[CHOOSE i \in 1..Len(UpperSeq) : UpperSeq[i] = c]
    ELSE c

\* str.lower()
lower(s) == [i \in 1..Len(s) |-> lower_char(s[i])]

RECURSIVE lstrip(_)
lstrip(s) ==
    IF s # <<>> /\ Head(s) \in Whitespace THEN lstrip(Tail(s)) ELSE s

RECURSIVE rstrip(_)
rstrip(s) ==
    IF s # <<>> /\ s[Len(s)] \in Whitespace
    THEN rstrip(SubSeq(s, 1, Len(s) - 1))
    ELSE s

\* str.strip()
strip(s) == rstrip(lstrip(s))

\* re.sub(pattern-of-class-complement, "", s): keep the characters in keep
RECURSIVE keep_only(_, _)
keep_only(s, keep) ==
    IF s = <<>> THEN <<>>
    ELSE IF Head(s) \in keep THEN <<Head(s)>> \o keep_only(Tail(s), keep)
    ELSE keep_only(Tail(s), keep)

\* str.replace(old, "") for a one-character old
replace(s, old) == keep_only(s, Range(s) \ {old})

\* re.match in place of re.fullmatch: the pattern only has to match a prefix
match_az(guess) == Len(guess) >= 1 /\ guess[1] \in AZ

\* re.fullmatch(r"[a-z]", guess)
fullmatch_az(guess) == Len(guess) = 1 /\ guess[1] \in AZ

(* ------------------------------------------------------------------- mask *)

\* " ".join(parts)
RECURSIVE join(_)
join(parts) ==
    IF parts = <<>> THEN <<>>
    ELSE IF Len(parts) = 1 THEN <<parts[1]>>
    ELSE <<parts[1], " ">> \o join(Tail(parts))

\* mask joining its characters with nothing between them
mask_unspaced(word, tried) ==
    [i \in 1..Len(word) |-> IF word[i] \in tried THEN word[i] ELSE "_"]

\* lines 71-73
mask(word, tried) ==
    join([i \in 1..Len(word) |-> IF word[i] \in tried THEN word[i] ELSE "_"])

(* ------------------------------------------------------------ word source *)

bee == <<"b", "e", "e">>
ebb == <<"e", "b", "b">>
aba == <<"a", "b", "a">>

\* wordfreq's zipf_frequency(w, "en"), in tenths: the commonness oracle
zipf_frequency(w) ==
    CASE w = bee -> 47
      [] w = ebb -> 36
      [] w = aba -> 21
      [] OTHER -> 0

\* what requests.get / raise_for_status / r.json() can do
Failures == {"connection_error", "timeout", "http_error", "bad_json"}

\* r.json() that is not a list (a JSON object)
NonList == <<"{", "}">>

\* bodies the provider can answer with: lists of raw tokens
Bodies ==
    { <<>>,
      << <<"B", "e", "e">>, <<"e", "b", "b", "!">>, aba, <<>>, <<"b", "e">> >>,
      << aba, <<"1", "2", "3">> >> }

Responses ==
    [kind : Failures, is_list : {FALSE}, data : {<<>>}]
        \cup [kind : {"ok"}, is_list : {FALSE}, data : {NonList}]
        \cup [kind : {"ok"}, is_list : {TRUE}, data : Bodies]

\* the loop of fetch_common_candidates over data
RECURSIVE common_words(_, _)
common_words(data, target_len) ==
    IF data = <<>> THEN <<>>
    ELSE LET w == lower(keep_only(Head(data), Alpha))
             rest == common_words(Tail(data), target_len)
         IN  IF w = <<>> \/ Len(w) # target_len THEN rest
             ELSE IF zipf_frequency(w) >= min_zipf THEN <<w>> \o rest
             ELSE rest

\* the body of fetch_common_candidates on a response that did not raise
fetch_common_candidates(resp, target_len) ==
    common_words(IF resp.is_list THEN resp.data ELSE <<>>, target_len)

\* the values random.choice(common_words) can return, or the fallback
fetch_random_word(cands) ==
    IF cands # <<>> THEN Range(cands) ELSE {streamlit}

(* ------------------------------------------------------------------ cache *)

\* the word length the player selects (number_input, 3..12, default 5)
Lengths == {3}

\* an entry of the st.cache_data store: the value fetch_common_candidates
\* returned and the seconds since it was stored
NoEntry == [present |-> FALSE, value |-> <<>>, age |-> 0]

\* an entry kept through the second that ends its ttl
expired_late(age) == age > ttl

\* st.cache_data(ttl=600): an entry is kept while it is younger than ttl
expired(age) == age >= ttl

\* the store after seconds more seconds
aged(store, seconds) ==
    [k \in DOMAIN store |->
        IF ~store[k].present THEN store[k]
        ELSE IF expired(store[k].age + seconds) THEN NoEntry
        ELSE [store[k] EXCEPT !.age = store[k].age + seconds]]

\* the call is served from the store
cache_hit(key) == cache[key].present

(* --------------------------------------------------------------- new_game *)

\* st.session_state.state = None
None == [word |-> <<>>, attempts_left |-> 0, wrong_letters |-> <<>>,
         tried |-> {}, status |-> "none"]

\* a new round that resets the word and the status only
new_state_carry(word) ==
    [state EXCEPT !.word = word, !.status = "in_progress"]

\* the dict new_game returns
new_state(word) ==
    [word |-> word, attempts_left |-> max_tries, wrong_letters |-> <<>>,
     tried |-> {}, status |-> "in_progress"]

\* the loop accepting its pick at every iteration, used or not
RECURSIVE new_game_loop_lax(_, _, _)
new_game_loop_lax(i, used, cands) ==
    LET picks == fetch_random_word(cands)
    IN  {[word |-> w, used |-> used \cup {w}, fetches |-> i + 1] : w \in picks}
            \cup (IF i < retries /\ picks \cap used # {}
                  THEN new_game_loop_lax(i + 1, used, cands)
                  ELSE {})

\* the loop breaking on a new word without recording it
RECURSIVE new_game_loop_unrecorded(_, _, _)
new_game_loop_unrecorded(i, used, cands) ==
    IF i = retries
    THEN {[word |-> w, used |-> used, fetches |-> i + 1] : w \in fetch_random_word(cands)}
    ELSE LET picks == fetch_random_word(cands)
         IN  {[word |-> w, used |-> used, fetches |-> i + 1] : w \in picks \ used}
                 \cup (IF picks \cap used # {}
                       THEN new_game_loop_unrecorded(i + 1, used, cands)
                       ELSE {})

\* the for/else loop of new_game from iteration i on: the set of
\* (word, used_words, number of fetch_random_word calls) it can end with
RECURSIVE new_game_loop(_, _, _)
new_game_loop(i, used, cands) ==
    IF i = retries
    THEN {[word |-> w, used |-> used, fetches |-> i + 1] : w \in fetch_random_word(cands)}
    ELSE LET picks == fetch_random_word(cands)
         IN  {[word |-> w, used |-> used \cup {w}, fetches |-> i + 1] : w \in picks \ used}
                 \cup (IF picks \cap used # {}
                       THEN new_game_loop(i + 1, used, cands)
                       ELSE {})

\* st.subheader(mask(...)), or nothing when the script stops before it
NotRendered == <<"-">>

render(s) == IF s = None THEN NotRendered ELSE mask(s.word, s.tried)

(* ------------------------------------------------------------------- Init *)

Init ==
    /\ state = None
    /\ letter = <<>>
    /\ solve = <<>>
    /\ used_words = {}
    /\ ui_warning = <<>>
    /\ cache = [k \in Lengths |-> NoEntry]
    /\ last = "init"
    /\ shown = NotRendered

(* ------------------------------------------------------------- callbacks *)

\* f"'{guess}' was already tried."
already_tried(guess) == <<"'">> \o guess \o <<"'", " was already tried.">>

\* the guard without its status test
inactive_none_only(s) == s = None

\* the guard both callbacks start with: no active game
inactive(s) == s = None \/ s.status # "in_progress"

\* the duplicate test looking at the misses only
tried_before_misses(s, c) == c \in Range(s.wrong_letters)

\* line 132: guess in state_dict["tried"]
tried_before(s, c) == c \in s.tried

\* guess_letter comparing the spaced mask with the word
guess_letter_spaced(s, c) ==
    LET tried == s.tried \cup {c}
        miss == c \notin Range(s.word)
        wrong_letters == IF miss THEN Append(s.wrong_letters, c) ELSE s.wrong_letters
        attempts_left == IF miss THEN s.attempts_left - 1 ELSE s.attempts_left
        status == IF mask(s.word, tried) = s.word THEN "won"
                  ELSE IF attempts_left <= 0 THEN "lost"
                  ELSE s.status
    IN  [word |-> s.word, attempts_left |-> attempts_left,
         wrong_letters |-> wrong_letters, tried |-> tried, status |-> status]

\* guess_letter putting a miss at the front of wrong_letters
guess_letter_prepend(s, c) ==
    LET tried == s.tried \cup {c}
        miss == c \notin Range(s.word)
        wrong_letters == IF miss THEN <<c>> \o s.wrong_letters ELSE s.wrong_letters
        attempts_left == IF miss THEN s.attempts_left - 1 ELSE s.attempts_left
        status == IF replace(mask(s.word, tried), " ") = s.word THEN "won"
                  ELSE IF attempts_left <= 0 THEN "lost"
                  ELSE s.status
    IN  [word |-> s.word, attempts_left |-> attempts_left,
         wrong_letters |-> wrong_letters, tried |-> tried, status |-> status]

\* guess_letter that never ends the round on a miss
guess_letter_no_loss(s, c) ==
    LET tried == s.tried \cup {c}
        miss == c \notin Range(s.word)
        wrong_letters == IF miss THEN Append(s.wrong_letters, c) ELSE s.wrong_letters
        attempts_left == IF miss THEN s.attempts_left - 1 ELSE s.attempts_left
        status == IF replace(mask(s.word, tried), " ") = s.word THEN "won"
                  ELSE s.status
    IN  [word |-> s.word, attempts_left |-> attempts_left,
         wrong_letters |-> wrong_letters, tried |-> tried, status |-> status]

\* lines 138-150: record an accepted letter and recompute the status
guess_letter(s, c) ==
    LET tried == s.tried \cup {c}
        miss == c \notin Range(s.word)
        wrong_letters == IF miss THEN Append(s.wrong_letters, c) ELSE s.wrong_letters
        attempts_left == IF miss THEN s.attempts_left - 1 ELSE s.attempts_left
        status == IF replace(mask(s.word, tried), " ") = s.word THEN "won"
                  ELSE IF attempts_left <= 0 THEN "lost"
                  ELSE s.status
    IN  [word |-> s.word, attempts_left |-> attempts_left,
         wrong_letters |-> wrong_letters, tried |-> tried, status |-> status]

\* solve_word that never ends the round on a wrong word
solve_word_no_loss(s, guess) ==
    IF guess = s.word
    THEN [s EXCEPT !.tried = s.tried \cup Range(s.word), !.status = "won"]
    ELSE [s EXCEPT !.attempts_left = s.attempts_left - 1]

\* solve_word that wins without marking the letters of the word as tried
solve_word_unmarked(s, guess) ==
    IF guess = s.word
    THEN [s EXCEPT !.status = "won"]
    ELSE [s EXCEPT !.attempts_left = s.attempts_left - 1,
                   !.status = IF s.attempts_left - 1 <= 0 THEN "lost" ELSE s.status]

\* solve_word that records the letters of a wrong word as tried
solve_word_recording(s, guess) ==
    IF guess = s.word
    THEN [s EXCEPT !.tried = s.tried \cup Range(s.word), !.status = "won"]
    ELSE [s EXCEPT !.attempts_left = s.attempts_left - 1,
                   !.tried = s.tried \cup Range(guess),
                   !.status = IF s.attempts_left - 1 <= 0 THEN "lost" ELSE s.status]

\* solve_word testing attempts_left < 0
solve_word_late_loss(s, guess) ==
    IF guess = s.word
    THEN [s EXCEPT !.tried = s.tried \cup Range(s.word), !.status = "won"]
    ELSE [s EXCEPT !.attempts_left = s.attempts_left - 1,
                   !.status = IF s.attempts_left - 1 < 0 THEN "lost" ELSE s.status]

\* lines 168-176: a non-empty whole-word guess
solve_word(s, guess) ==
    IF guess = s.word
    THEN [s EXCEPT !.tried = s.tried \cup Range(s.word), !.status = "won"]
    ELSE [s EXCEPT !.attempts_left = s.attempts_left - 1,
                   !.status = IF s.attempts_left - 1 <= 0 THEN "lost" ELSE s.status]

\* on_guess_letter leaving the input in its field
on_guess_letter_keeping(field) ==
    LET guess == lower(strip(field))
    IN  /\ letter' = field
        /\ IF inactive(state)
           THEN last' = "ignored" /\ UNCHANGED <<state, ui_warning>>
           ELSE IF ~fullmatch_az(guess)
           THEN last' = "invalid" /\ UNCHANGED <<state, ui_warning>>
           ELSE IF tried_before(state, guess[1])
           THEN /\ last' = "duplicate"
                /\ ui_warning' = already_tried(guess)
                /\ UNCHANGED state
           ELSE /\ last' = "letter"
                /\ ui_warning' = <<>>
                /\ state' = guess_letter(state, guess[1])

\* on_guess_letter clearing the advisory before it validates the input
on_guess_letter_clearing(field) ==
    LET guess == lower(strip(field))
    IN  /\ letter' = <<>>
        /\ IF inactive(state)
           THEN last' = "ignored" /\ UNCHANGED <<state, ui_warning>>
           ELSE IF ~fullmatch_az(guess)
           THEN last' = "invalid" /\ ui_warning' = <<>> /\ UNCHANGED state
           ELSE IF tried_before(state, guess[1])
           THEN /\ last' = "duplicate"
                /\ ui_warning' = already_tried(guess)
                /\ UNCHANGED state
           ELSE /\ last' = "letter"
                /\ ui_warning' = <<>>
                /\ state' = guess_letter(state, guess[1])

\* on_guess_letter with field the value of st.session_state.letter
on_guess_letter(field) ==
    LET guess == lower(strip(field))
    IN  /\ letter' = <<>>
        /\ IF inactive(state)
           THEN last' = "ignored" /\ UNCHANGED <<state, ui_warning>>
           ELSE IF ~fullmatch_az(guess)
           THEN last' = "invalid" /\ UNCHANGED <<state, ui_warning>>
           ELSE IF tried_before(state, guess[1])
           THEN /\ last' = "duplicate"
                /\ ui_warning' = already_tried(guess)
                /\ UNCHANGED state
           ELSE /\ last' = "letter"
                /\ ui_warning' = <<>>
                /\ state' = guess_letter(state, guess[1])

\* on_solve_word with field the value of st.session_state.solve
on_solve_word(field) ==
    LET guess == lower(strip(field))
    IN  /\ solve' = <<>>
        /\ IF inactive(state)
           THEN last' = "ignored" /\ UNCHANGED state
           ELSE IF guess = <<>>
           THEN last' = "invalid" /\ UNCHANGED state
           ELSE last' = "solve" /\ state' = solve_word(state, guess)

(* ----------------------------------------------------------------- inputs *)

\* what can arrive in st.session_state.letter: the widget asks for one
\* character (max_chars=1), on_guess_letter itself accepts any string
LetterInputs ==
    { <<>>, <<"b">>, <<"e">>, <<"z">>, <<"B">>, <<"1">>, <<"?">>,
      <<"b", "e">>, <<" ", "e", " ">>, <<" ">> }

\* what the player types into "Solve the word"
SolveInputs ==
    { <<>>, <<" ", " ">>, bee, ebb, streamlit, <<"z">>,
      <<" ", "B", "e", "e", " ">> }

(* ---------------------------------------------------------------- actions *)

\* the script body that follows the callbacks of a run
Rerun ==
    /\ shown' = render(state')
    /\ UNCHANGED <<used_words, cache>>

\* text_input "Guess a letter": the widget value becomes raw, on_change runs
LetterChangedTo(raw) ==
    on_guess_letter(raw) /\ UNCHANGED solve /\ Rerun

LetterChanged ==
    \E raw \in LetterInputs : LetterChangedTo(raw)

\* button "Guess": on_click runs on the field as it stands
GuessClicked ==
    on_guess_letter(letter) /\ UNCHANGED solve /\ Rerun

\* text_input "Solve the word": the widget value becomes raw, on_change runs
SolveChangedTo(raw) ==
    on_solve_word(raw) /\ UNCHANGED <<letter, ui_warning>> /\ Rerun

SolveChanged ==
    \E raw \in SolveInputs : SolveChangedTo(raw)

\* button "Solve": on_click runs on the field as it stands
SolveClicked ==
    on_solve_word(solve) /\ UNCHANGED <<letter, ui_warning>> /\ Rerun

\* new_game(len_w) finishing with the candidates cands, then st.rerun()
start_round(cands) ==
    \E o \in {<<r.word, r.used>> : r \in new_game_loop(0, used_words, cands)} :
        /\ state' = new_state(o[1])
        /\ used_words' = o[2]
        /\ shown' = render(state')

\* fetch_common_candidates served from the cache, then the rest of new_game
new_game_cached(len_w) ==
    /\ cache_hit(len_w)
    /\ start_round(cache[len_w].value)
    /\ last' = "cached"
    /\ UNCHANGED <<cache, letter, solve, ui_warning>>

\* fetch_common_candidates calling the provider, which answers resp
new_game_fetched(len_w, resp) ==
    /\ ~cache_hit(len_w)
    /\ IF resp.kind # "ok"
       THEN \* the exception leaves new_game and ends the script run
            /\ last' = "failed"
            /\ shown' = NotRendered
            /\ UNCHANGED <<state, used_words, cache>>
       ELSE LET common == fetch_common_candidates(resp, len_w)
            IN  /\ start_round(common)
                /\ last' = "fetched"
                /\ cache' = [cache EXCEPT ![len_w] =
                                [present |-> TRUE, value |-> common, age |-> 0]]
    /\ UNCHANGED <<letter, solve, ui_warning>>

\* st.session_state.state = new_game(len_w); st.rerun()
new_game(len_w) ==
    \/ new_game_cached(len_w)
    \/ \E resp \in Responses : new_game_fetched(len_w, resp)

\* button "Start a new game"
StartNewGame ==
    \E len_w \in Lengths : new_game(len_w)

\* button "Play again", shown once the round is over
PlayAgain ==
    /\ state # None
    /\ state.status # "in_progress"
    /\ \E len_w \in Lengths : new_game(len_w)

\* ttl / 2 seconds pass
Tick ==
    /\ \E k \in Lengths : cache[k].present
    /\ cache' = aged(cache, ttl \div 2)
    /\ UNCHANGED <<state, letter, solve, used_words, ui_warning, last, shown>>

Next ==
    \/ LetterChanged
    \/ GuessClicked
    \/ SolveChanged
    \/ SolveClicked
    \/ StartNewGame
    \/ PlayAgain
    \/ Tick

Spec == Init /\ [][Next]_vars

TypeOK ==
    /\ state.status \in {"none", "in_progress", "won", "lost"}
    /\ state.attempts_left \in Int
    /\ letter = <<>>
    /\ solve = <<>>
    /\ \A k \in Lengths : cache[k].age \in 0..ttl

(* ------------------------------------------------- mask as a pure function *)

MaskLetters == {"a", "b", "c"}

\* the words of at most MaxWordLen letters
MaskWords == UNION {[1..n -> MaskLetters] : n \in 0..MaxWordLen}

InitMask ==
    /\ state \in {[word |-> w, attempts_left |-> max_tries, wrong_letters |-> <<>>,
                   tried |-> G, status |-> "in_progress"] :
                      w \in MaskWords, G \in SUBSET MaskLetters}
    /\ letter = <<>>
    /\ solve = <<>>
    /\ used_words = {}
    /\ ui_warning = <<>>
    /\ cache = [k \in Lengths |-> NoEntry]
    /\ last = "init"
    /\ shown = NotRendered

\* st.subheader(mask(game_state["word"], game_state["tried"]))
RenderMask ==
    /\ shown' = mask(state.word, state.tried)
    /\ UNCHANGED <<state, letter, solve, used_words, ui_warning, cache, last>>

SpecMask == InitMask /\ [][RenderMask]_vars

(* ----------------------------------------------------------------- claims *)

all_guessed(s) == Range(s.word) \subseteq s.tried

GuessStep == LetterChanged \/ GuessClicked \/ SolveChanged \/ SolveClicked

NewGameStep == StartNewGame \/ PlayAgain

\* C1: once the round is won or lost, a letter guess or a whole-word guess
\* with any input leaves the whole round state (word, attempts left, tried
\* letters, wrong letters, status) as it was, and the state is replaced only
\* by a new game.
C1_TerminalAbsorbing ==
    [][state.status \in {"won", "lost"} =>
          /\ GuessStep => state' = state
          /\ state' # state => NewGameStep /\ state' = new_state(state'.word)]_vars

\* a guess arrived after the round was over and was ignored
C1_Witness ==
    /\ state.status \in {"won", "lost"}
    /\ last = "ignored"

\* C2: a round starts with 6 attempts (it has 6 until the first guess); no
\* guess of either kind raises attempts_left; attempts_left is never below 0.
C2_AttemptsBounded ==
    [][/\ state' # None => state'.attempts_left \in 0..6
       /\ last' \in {"cached", "fetched"} => state'.attempts_left = 6
       /\ state'.attempts_left > state.attempts_left => ~GuessStep]_vars

\* the attempts ran out and a later guess found them at 0
C2_Witness ==
    /\ state.attempts_left = 0
    /\ state.status = "lost"
    /\ state.wrong_letters # <<>>
    /\ last = "ignored"

\* C3: in a round, the status is won exactly when every character of the
\* word is among the tried letters.
C3_WonIffAllGuessed ==
    state # None => (state.status = "won" <=> all_guessed(state))

\* the last letter of the word was guessed as a letter
C3_Witness ==
    /\ state.status = "won"
    /\ last = "letter"
    /\ state.attempts_left < max_tries

\* C4: in a round, the status is lost exactly when no attempt is left and
\* the word is not fully guessed.
C4_LostIffNoAttempts ==
    state # None =>
        (state.status = "lost" <=> state.attempts_left = 0 /\ ~all_guessed(state))

\* the sixth miss was a wrong whole-word guess
C4_Witness ==
    /\ state.status = "lost"
    /\ state.attempts_left = 0
    /\ last = "solve"

\* a letter input, trimmed and lowercased
LetterGuess == [raw \in LetterInputs |-> lower(strip(raw))]

\* a whole-word input, trimmed and lowercased
WordGuess == [raw \in SolveInputs |-> lower(strip(raw))]

\* the input, trimmed and lowercased, is exactly one letter a-z
one_letter(raw) ==
    LET g == lower(strip(raw)) IN Len(g) = 1 /\ g[1] \in AZ

\* the letter inputs that are one letter once trimmed and lowercased
OneLetterInputs == {raw \in LetterInputs : one_letter(raw)}

\* C5 as stated: guessing a letter that is already among the tried letters
\* changes nothing of the round and sets the 'already tried' advisory naming
\* the letter, in whatever state the round is.
C5_DuplicateAlwaysAdvised ==
    [][\A raw \in OneLetterInputs :
          (/\ state # None
           /\ LetterGuess[raw][1] \in state.tried
           /\ LetterChangedTo(raw))
          => /\ state' = state
             /\ ui_warning' = already_tried(LetterGuess[raw])]_vars

\* C5, amended: while the round is in progress, guessing a letter that is
\* already among the tried letters changes nothing of the round and sets the
\* 'already tried' advisory naming the letter; once the round is won or lost
\* the repeated guess changes nothing either, and the advisory stays as it was.
C5_DuplicateRejected ==
    [][\A raw \in OneLetterInputs :
          (/\ state # None
           /\ LetterGuess[raw][1] \in state.tried
           /\ LetterChangedTo(raw))
          => /\ state' = state
             /\ ui_warning' = IF state.status = "in_progress"
                              THEN already_tried(LetterGuess[raw])
                              ELSE ui_warning]_vars

\* a miss was guessed again after another guess, and the advisory names it
C5_Witness ==
    /\ last = "duplicate"
    /\ ui_warning = <<"'", "z", "'", " was already tried.">>
    /\ state.wrong_letters = <<"z">>
    /\ Cardinality(state.tried) >= 2
    /\ state.attempts_left = max_tries - 1

\* C6: a letter guess whose input, trimmed and lowercased, is not exactly one
\* letter a-z, and a whole-word guess whose trimmed input is empty, leave the
\* round state as it was.
C6_InvalidInputNoEffect ==
    [][state' # state =>
          /\ \A raw \in LetterInputs \ OneLetterInputs : ~LetterChangedTo(raw)
          /\ ~one_letter(letter) => ~GuessClicked
          /\ \A raw \in SolveInputs : strip(raw) = <<>> => ~SolveChangedTo(raw)
          /\ strip(solve) = <<>> => ~SolveClicked]_vars

\* an invalid input arrived in a round that had already lost an attempt
C6_Witness ==
    /\ last = "invalid"
    /\ state.status = "in_progress"
    /\ state.attempts_left < max_tries
    /\ state.tried # {}

\* C7: a whole-word guess that, trimmed and lowercased, equals the word, made
\* while the round is in progress, wins the round whatever attempts_left and
\* the tried letters were: every letter of the word becomes tried, and
\* attempts_left, wrong_letters and the word stay as they were.
C7_CorrectSolveWins ==
    [][\A raw \in SolveInputs :
          (/\ state.status = "in_progress"
           /\ WordGuess[raw] = state.word
           /\ SolveChangedTo(raw))
          => state' = [state EXCEPT !.status = "won",
                                    !.tried = state.tried \cup Range(state.word)]]_vars

\* the word was solved on the last attempt, after a missed letter
C7_Witness ==
    /\ last = "solve"
    /\ state.status = "won"
    /\ state.attempts_left = 1
    /\ state.wrong_letters # <<>>

\* C8: a non-empty whole-word guess other than the word, made while the round
\* is in progress, takes exactly one attempt, loses the round exactly when no
\* attempt is left, and leaves wrong_letters, the tried letters and the word
\* as they were.
C8_WrongSolveCostsOne ==
    [][\A raw \in SolveInputs :
          (/\ state.status = "in_progress"
           /\ WordGuess[raw] # <<>>
           /\ WordGuess[raw] # state.word
           /\ SolveChangedTo(raw))
          => state' = [state EXCEPT
                          !.attempts_left = state.attempts_left - 1,
                          !.status = IF state.attempts_left - 1 = 0
                                     THEN "lost" ELSE "in_progress"]]_vars

\* two wrong words cost two attempts and recorded no letter
C8_Witness ==
    /\ last = "solve"
    /\ state.status = "in_progress"
    /\ state.attempts_left = max_tries - 2
    /\ state.tried = {}
    /\ state.wrong_letters = <<>>

\* C9 as stated: mask(w, G) is as long as w, and it shows no placeholder
\* exactly when every character of w is in G.
C9_MaskSameLength ==
    shown # NotRendered =>
        /\ Len(shown) = Len(state.word)
        /\ "_" \notin Range(shown) <=> all_guessed(state)

\* C9, amended: mask(w, G) has one position for each character of w, the
\* positions separated by single spaces, so it is 2 * len(w) - 1 long for a
\* non-empty w and as long as w once the spaces are taken out; it shows no
\* placeholder, and is then w itself without the spaces, exactly when every
\* character of w is in G.
C9_MaskShape ==
    shown # NotRendered =>
        LET n == Len(state.word)
            positions == SelectSeq(shown, LAMBDA c : c # " ")
        IN  /\ Len(positions) = n
            /\ Len(shown) = IF n = 0 THEN 0 ELSE 2 * n - 1
            /\ \A i \in 1..Len(shown) : shown[i] = " " <=> i % 2 = 0
            /\ "_" \notin Range(shown) <=> all_guessed(state)
            /\ positions = state.word <=> all_guessed(state)

\* a three-letter word with its middle letter hidden
C9_Witness ==
    /\ state.word = <<"a", "b", "a">>
    /\ state.tried = {"a", "c"}
    /\ shown = <<"a", " ", "_", " ", "a">>

\* C10 as stated: when the call to the word provider fails, new_game still
\* returns the fallback word and a round in progress is created; no error
\* leaves new_game.
C10_ProviderFailureAbsorbed ==
    [][\A len_w \in Lengths, resp \in Responses :
          resp.kind \in Failures /\ new_game_fetched(len_w, resp)
          => /\ state' = new_state(streamlit)
             /\ last' # "failed"]_vars

\* C11: whenever the candidate list for the requested length is empty (an
\* empty or non-list response, a response the filter empties, or such a list
\* served from the cache), new_game starts the round on the fixed fallback
\* word "streamlit", and after the call that word is in used_words; this
\* holds on the first such call and on every later one, and used_words
\* loses nothing.
C11_EmptyListFallsBack ==
    [][\A len_w \in Lengths :
          LET fallback == /\ state' = new_state(streamlit)
                          /\ streamlit \in used_words'
                          /\ used_words \subseteq used_words'
          IN  /\ ( /\ last' = "cached"
                   /\ cache_hit(len_w)
                   /\ cache[len_w].value = <<>>
                   /\ new_game_cached(len_w) ) => fallback
              /\ \A resp \in Responses :
                    ( /\ last' = "fetched"
                      /\ resp.kind = "ok"
                      /\ fetch_common_candidates(resp, len_w) = <<>>
                      /\ new_game_fetched(len_w, resp) ) => fallback]_vars

\* a later call of the session: the empty list comes from the cache, a real
\* word was issued before, and the round runs on the fallback word
C11_Witness ==
    /\ last = "cached"
    /\ \E len_w \in Lengths : cache[len_w].present /\ cache[len_w].value = <<>>
    /\ state = new_state(streamlit)
    /\ {bee, streamlit} \subseteq used_words

\* C12 as stated: used_words contains the secret word of every round started
\* in the session, the round in play among them, also when that word was
\* accepted on the 31st fetch.
C12_IssuedWordsRecorded ==
    state # None => state.word \in used_words

\* C13: while an entry of fetch_common_candidates is younger than the ttl of
\* 600 seconds, a new game with the same key is served from it: no request
\* is sent, the entry stays as it is and the word is picked from the very
\* candidate sequence stored. No entry is kept to the age of 600 seconds,
\* and a new game that finds no entry for its key sends a request; when the
\* provider answers, the filtered fresh response is stored with age 0 and
\* the word is picked from it.
C13_CacheWindow ==
    [][\A len_w \in Lengths :
          /\ cache'[len_w].present => cache'[len_w].age < ttl
          /\ ( last' = "cached" /\ ~Tick /\ new_game_cached(len_w) )
             => /\ cache[len_w].present
                /\ cache[len_w].age < ttl
                /\ cache' = cache
                /\ state'.word \in fetch_random_word(cache[len_w].value)
          /\ \A resp \in Responses :
                ( /\ last' = (IF resp.kind = "ok" THEN "fetched" ELSE "failed")
                  /\ ~Tick
                  /\ new_game_fetched(len_w, resp) )
                => /\ ~cache[len_w].present
                   /\ resp.kind = "ok"
                      => /\ last' = "fetched"
                         /\ cache'[len_w] =
                               [present |-> TRUE,
                                value |-> fetch_common_candidates(resp, len_w),
                                age |-> 0]
                         /\ state'.word \in fetch_random_word(cache'[len_w].value)]_vars

\* a second request with the same key: the session issued a word of the
\* list [bee, ebb] and the fallback word of an empty list, so two responses
\* were fetched for length 3, the later one after the earlier had expired
C13_Witness ==
    /\ last = "fetched"
    /\ \E len_w \in Lengths : cache[len_w].present /\ cache[len_w].age = 0
    /\ {bee, streamlit} \subseteq used_words
    /\ Cardinality(Lengths) = 1

\* C14: a new game that gets its word replaces the round state wholesale,
\* whatever the state before (none, in progress, won or lost): 6 attempts
\* left, no tried letter, no wrong letter, status in progress, and the word
\* the only thing chosen. used_words is never cleared: no step of the session
\* removes a word from it.
C14_RoundReplacesState ==
    [][/\ used_words \subseteq used_words'
       /\ ( last' \in {"cached", "fetched"} /\ ~Tick )
          => /\ state' = [word |-> state'.word, attempts_left |-> 6,
                          wrong_letters |-> <<>>, tried |-> {},
                          status |-> "in_progress"]
             /\ state'.word # <<>>
             /\ shown' = mask(state'.word, {})]_vars

\* a second round at least, started after a round in which a letter was
\* guessed twice (its advisory is still set): the state is fresh
C14_Witness ==
    /\ last = "cached"
    /\ ui_warning # <<>>
    /\ Cardinality(used_words) >= 2
    /\ state.status = "in_progress"
    /\ state.attempts_left = max_tries
    /\ state.tried = {}
    /\ state.wrong_letters = <<>>

\* C15: a letter guess accepted while the round is in progress (one letter,
\* not tried before) puts the letter among the tried letters; a letter that
\* is not in the word is appended at the end of wrong_letters and costs one
\* attempt, a letter of the word leaves wrong_letters and attempts_left as
\* they were; the word is not touched. In every state wrong_letters lists,
\* without duplicates, exactly the tried letters that are not in the word.
C15_LetterBookkeeping ==
    [][/\ /\ Range(state'.wrong_letters) = state'.tried \ Range(state'.word)
          /\ Cardinality(Range(state'.wrong_letters)) = Len(state'.wrong_letters)
       /\ \A raw \in OneLetterInputs :
             LET c == LetterGuess[raw][1]
             IN  ( /\ state.status = "in_progress"
                   /\ c \notin state.tried
                   /\ LetterChangedTo(raw) )
                 => /\ state'.tried = state.tried \cup {c}
                    /\ state'.word = state.word
                    /\ IF c \in Range(state.word)
                       THEN /\ state'.wrong_letters = state.wrong_letters
                            /\ state'.attempts_left = state.attempts_left
                       ELSE /\ state'.wrong_letters = Append(state.wrong_letters, c)
                            /\ state'.attempts_left = state.attempts_left - 1]_vars

\* two misses in the order they were guessed, with a hit between them
C15_Witness ==
    /\ last = "letter"
    /\ state.word = streamlit
    /\ state.wrong_letters = <<"z", "b">>
    /\ state.tried = {"z", "e", "b"}
    /\ state.attempts_left = max_tries - 2

\* the candidate lists a call of new_game can get in the current state: the
\* cached ones and the filtered answers of the provider
candidate_lists ==
    {cache[k].value : k \in {l \in Lengths : cache[l].present}}
        \cup {fetch_common_candidates(resp, k) :
                 resp \in {r \in Responses : r.kind = "ok"}, k \in Lengths}

\* C16: from every reachable used_words and with every candidate list, the
\* loop of new_game ends with a word after at least 1 and at most 31 calls
\* of fetch_random_word; it ends on a word that was already in used_words
\* only at the 31st call, that is after 30 picks that were all used words;
\* an unused word picked at one of the first 30 calls is returned at that
\* very call and recorded, and the loop goes on only past a used pick.
C16_LoopBounded ==
    \A cands \in candidate_lists :
        LET picks == fetch_random_word(cands)
            out == new_game_loop(0, used_words, cands)
        IN  /\ out # {}
            /\ \A o \in out :
                  /\ o.fetches \in 1..31
                  /\ o.word \in picks
                  /\ o.word \in used_words => o.fetches = 31
                  /\ o.fetches <= 30 => o.used = used_words \cup {o.word}
                  /\ o.fetches > 1 => picks \cap used_words # {}
            /\ \A w \in picks \ used_words :
                  [word |-> w, used |-> used_words \cup {w}, fetches |-> 1] \in out
            /\ picks \cap used_words # {}
               => /\ \E o \in out : o.fetches = 31
                  /\ picks \ used_words # {}
                     => \A n \in 1..30 : \E o \in out : o.fetches = n

\* a round whose word was accepted at the 31st call: the list is cached,
\* the word in play is not recorded, and 31 calls are among the outcomes
C16_Witness ==
    /\ last = "cached"
    /\ state.status = "in_progress"
    /\ state.word \notin used_words
    /\ \E k \in Lengths :
          /\ cache[k].present
          /\ \E o \in new_game_loop(0, used_words \ {state.word}, cache[k].value) :
                o.fetches = 31 /\ o.word = state.word

\* the letter inputs that are not one letter once trimmed and lowercased
NotOneLetterInputs == LetterInputs \ OneLetterInputs

\* C17 as stated: a letter guess in a round in progress whose input, trimmed
\* and lowercased, is not exactly one letter leaves the round state as it was
\* and emits an advisory about the input, one that is not empty and is not an
\* 'already tried' advisory.
C17_InvalidInputAdvised ==
    [][\A raw \in NotOneLetterInputs :
          ( /\ last' = "invalid"
            /\ state.status = "in_progress"
            /\ LetterChangedTo(raw) )
          => /\ state' = state
             /\ ui_warning' # <<>>
             /\ \A c \in AZ : ui_warning' # already_tried(<<c>>)]_vars

\* C17, amended: a letter guess whose input, trimmed and lowercased, is not
\* exactly one letter leaves the round state as it was and emits nothing: the
\* advisory stays as it was, empty or not, and the input field is cleared.
C17_InvalidInputSilent ==
    [][\A raw \in NotOneLetterInputs :
          ( /\ last' \in {"invalid", "ignored"}
            /\ LetterChangedTo(raw) )
          => /\ state' = state
             /\ ui_warning' = ui_warning
             /\ letter' = <<>>]_vars

\* an input that is not one letter has just been handled in a round in
\* progress, and the advisory of an earlier repeated guess is still there
C17_Witness ==
    /\ last = "invalid"
    /\ state.status = "in_progress"
    /\ ui_warning = already_tried(<<"e">>)
    /\ state.tried = {"e"}

\* the state-changing guesses made so far in a round in progress: one per
\* tried letter, and one per attempt lost that is not a wrong letter
moves(s) ==
    Cardinality(s.tried) + (max_tries - s.attempts_left - Len(s.wrong_letters))

\* what is left to a round: the letters not tried yet and the attempts
budget(s) == Cardinality(AZ \ s.tried) + s.attempts_left

\* C18: every guess that changes the state of a round in progress uses up
\* the round's budget: an accepted letter strictly grows the tried letters,
\* which are letters a-z, a wrong word costs exactly one attempt, and the
\* sum of the letters left and the attempts left strictly falls. A round in
\* progress has an attempt left and a letter of its word, hence of a-z, not
\* tried, so no round is in progress with all 26 letters tried, and it has
\* seen at most 26 + 5 - 1 state-changing guesses: the next one after that
\* ends it.
C18_RoundBounded ==
    [][/\ state'.status = "in_progress"
          => /\ state'.attempts_left \in 1..max_tries
             /\ state'.tried \subseteq AZ
             /\ Range(state'.word) \subseteq AZ
             /\ ~(Range(state'.word) \subseteq state'.tried)
             /\ state'.tried # AZ
             /\ moves(state') <= 26 + 5 - 1
             /\ budget(state') >= 2
       /\ ( /\ state.status = "in_progress"
            /\ state' # state
            /\ last' \in {"letter", "solve"} )
          => /\ budget(state') < budget(state)
             /\ state'.word = state.word
             /\ state.tried \subseteq state'.tried
             /\ state'.attempts_left <= state.attempts_left
             /\ last' = "letter" => Cardinality(state'.tried) = Cardinality(state.tried) + 1
             /\ ( last' = "solve" /\ state'.status # "won" )
                => /\ state'.attempts_left = state.attempts_left - 1
                   /\ state'.tried = state.tried
             /\ state'.status = "in_progress" => moves(state') = moves(state) + 1]_vars

\* a round still in progress after six state-changing guesses: every letter
\* the player can type is tried and one attempt is left, so the next
\* state-changing guess is a whole word and ends the round
C18_Witness ==
    /\ last = "solve"
    /\ state.status = "in_progress"
    /\ state.word = streamlit
    /\ state.tried = {"b", "e", "z"}
    /\ state.attempts_left = 1
    /\ moves(state) = 6

\* C19: one submitted input is applied at most once. Every run of a callback
\* leaves both input fields empty, so the second dispatch of a handler for
\* the same submission (on_click after on_change) runs on an empty field:
\* it changes no field of the round, costs no attempt, sets no advisory and
\* leaves the advisory as it was.
C19_SecondDispatchNoEffect ==
    [][/\ (GuessClicked \/ SolveClicked)
          => /\ state' = state
             /\ ui_warning' = ui_warning
             /\ last' \in {"ignored", "invalid"}
       /\ last' \in {"ignored", "invalid", "duplicate", "letter", "solve"}
          => letter' = <<>> /\ solve' = <<>>]_vars

\* a letter has just been applied at the cost of an attempt, its field is
\* empty again and the second dispatch of the handler can run
C19_Witness ==
    /\ last = "letter"
    /\ letter = <<>>
    /\ state.status = "in_progress"
    /\ state.wrong_letters = <<"z">>
    /\ ENABLED GuessClicked

\* C20 as stated: the 'already tried' advisory is never stale. Whenever it
\* is not empty it names a letter among the tried letters of the round in
\* play; none is pending right after a new round has started, and none is
\* left after a whole-word guess.
C20_AdvisoryNeverStale ==
    ui_warning # <<>>
    => /\ \E c \in state.tried : ui_warning = already_tried(<<c>>)
       /\ last \notin {"cached", "fetched", "solve"}

====
